---- MODULE Spec2Model ----
(***************************************************************************)
(* Function-extraction engine of clepon (src/src/clepon/services/          *)
(* project_service.py and its drivers in src/src/clepon/commands).         *)
(*                                                                         *)
(* Texts are modelled as sequences of lines and a line as a sequence of    *)
(* lexical tokens: the marker characters of a diff line ("+", "-", " ",    *)
(* "b", "/") are one token each, a path is its components separated by     *)
(* "/" tokens with the extension as the last token, and a line of source   *)
(* code is a run of indentation tokens followed by the tokens of one       *)
(* statement.  "\n".join(...) and the splitting into lines done by the     *)
(* parser are inverse to each other on such texts (no token holds a line   *)
(* break), so a text is kept as the sequence of its lines.                 *)
(***************************************************************************)
EXTENDS Integers, Sequences, FiniteSets, TLC

VARIABLES
    \* ---- parse_diff_output ----
    lines,              \* the lines of diff_output read so far by the for loop
    current_file,       \* path tokens, or None
    current_block,      \* pending added lines (prefix stripped)
    added_code_blocks,  \* flushed (file, text) fragments
    functions,          \* the list parse_diff_output returns
    bi,                 \* number of fragments already extracted
    dpc,                \* "scan" | "extract" | "done" | "off"
    draised,            \* an exception left parse_diff_output
    \* ---- init / parse_python_file ----
    disk,               \* what is on disk at the path being parsed
    python_files,       \* discovery order
    fi,                 \* index of the file being parsed
    all_functions,      \* the list init builds
    content,            \* text read by parse_python_file
    todo,               \* FunctionDef nodes of the walk still to be built
    file_functions,     \* `functions` of the running parse_python_file
    contributions,      \* what each finished parse_python_file returned
    reported,           \* files whose failure was printed on err_console
    touched,            \* the file was changed on disk while being parsed
    written,            \* another process has already rewritten a file
    spc,                \* "next" | "build" | "done" | "off" | the exception
                        \* that left parse_python_file and ended init
    \* ---- Function Builder called on its own ----
    bnode,              \* the node handed to the builder
    bresult,            \* the record it returned, or None
    bpc,                \* "call" | "done" | "off"
    \* ---- find_python_files ----
    fs_dirs,            \* directories under the root (paths relative to it)
    fs_files,           \* regular files under the root (paths relative to it)
    found,              \* the paths find_python_files returned
    finder,             \* the package whose find_python_files ran
    fpc                 \* "setup" | "done" | "off"

vars == <<lines, current_file, current_block, added_code_blocks, functions, bi,
          dpc, draised, disk, python_files, fi, all_functions, content, todo,
          file_functions, contributions, reported, touched, written,
          spc, bnode, bresult, bpc, fs_dirs, fs_files, found, finder, fpc>>

diffVars == <<lines, current_file, current_block, added_code_blocks, functions,
              bi, dpc, draised>>
scanVars == <<disk, python_files, fi, all_functions, content, todo,
              file_functions, contributions, reported, touched, written, spc>>
buildVars == <<bnode, bresult, bpc>>
findVars == <<fs_dirs, fs_files, found, finder, fpc>>

\* ------------------------------------------------------------------ bounds
\* longest diff (in lines) the scanner is run on
MaxLines == 4
\* longest source file (in lines) placed on disk
MaxSrcLines == 3
\* longest parameter list of each kind handed to the builder
MaxArgs == 1
\* deepest directory nesting below the root, and number of entries created
MaxDepth == 2
MaxEntries == 3

\* None of Python
None == <<"None">>

\* ------------------------------------------------------------ list helpers
RECURSIVE Flatten(_)
Flatten(ss) == IF ss = <<>> THEN <<>> ELSE Head(ss) \o Flatten(Tail(ss))

\* range(len(s)), counted from 1
Indices(s) == [i \in 1..Len(s) |-> i]

\* str.startswith / str.endswith / slicing from a position
StartsWith(s, p) == Len(s) >= Len(p) /\ SubSeq(s, 1, Len(p)) = p
EndsWith(s, p) == Len(s) >= Len(p) /\ SubSeq(s, Len(s) - Len(p) + 1, Len(s)) = p
SliceFrom(s, n) == SubSeq(s, n + 1, Len(s))

\* ------------------------------------------------------ the source language
\* One statement per line: a def header (its body follows, indented), a
\* one-line def, or `pass`.  IND is one indentation unit.
IND == "    "
Names == {"f", "g", "h"}

Indent(l) == Cardinality({i \in 1..Len(l) : \A j \in 1..i : l[j] = IND})
Stmt(l) == SliceFrom(l, Indent(l))

\* position of the ")" closing the parameter list of a def statement, 0 if none
CloseParen(s) ==
    LET ps == {i \in 4..Len(s) : s[i] = ")"}
    IN IF ps = {} THEN 0 ELSE CHOOSE i \in ps : \A j \in ps : i <= j

\* def NAME ( params ) :
IsDefStart(s) ==
    /\ Len(s) >= 5
    /\ s[1] = "def" /\ s[2] \in Names /\ s[3] = "("
    /\ CloseParen(s) > 0
    /\ \A i \in 4..(CloseParen(s) - 1) : s[i] \in {"x", "y"}
    /\ Len(s) > CloseParen(s) /\ s[CloseParen(s) + 1] = ":"
IsHeader(s) == IsDefStart(s) /\ Len(s) = CloseParen(s) + 1
IsOneLiner(s) == IsDefStart(s) /\ SliceFrom(s, CloseParen(s) + 1) = <<"pass">>
IsPass(s) == s = <<"pass">>
IsDef(s) == IsHeader(s) \/ IsOneLiner(s)
IsStatement(s) == IsDef(s) \/ IsPass(s)

\* The indentation stack of the parser while it reads a text: `stack` holds
\* the open blocks (indentation, owning node; 0 is the Module), `parent` the
\* parent node of every line read, `ok` is FALSE once a SyntaxError (or
\* IndentationError, its subclass) is certain.
RECURSIVE PopTo(_, _)
PopTo(stack, c) ==
    IF Len(stack) > 1 /\ stack[Len(stack)].ind > c
    THEN PopTo(SubSeq(stack, 1, Len(stack) - 1), c)
    ELSE stack

RECURSIVE ParseFrom(_, _, _, _, _)
ParseFrom(text, i, stack, expectBody, parent) ==
    IF i > Len(text)
    THEN [ok |-> ~expectBody, parent |-> parent]
    ELSE
        LET c == Indent(text[i])
            top == stack[Len(stack)]
            popped == PopTo(stack, c)
        IN IF ~IsStatement(Stmt(text[i]))
           THEN [ok |-> FALSE, parent |-> parent]
           ELSE IF expectBody
           THEN IF c > top.ind
                THEN ParseFrom(text, i + 1,
                               Append(stack, [ind |-> c, owner |-> i - 1]),
                               IsHeader(Stmt(text[i])),
                               Append(parent, i - 1))
                ELSE [ok |-> FALSE, parent |-> parent]
           ELSE IF c > top.ind \/ popped[Len(popped)].ind # c
                THEN [ok |-> FALSE, parent |-> parent]
                ELSE ParseFrom(text, i + 1, popped,
                               IsHeader(Stmt(text[i])),
                               Append(parent, popped[Len(popped)].owner))

\* ast.parse: [ok |-> FALSE] stands for SyntaxError; otherwise the tree, node
\* i being the statement of line i and node 0 the Module.
Parse(text) ==
    ParseFrom(text, 1, <<[ind |-> 0, owner |-> 0]>>, FALSE, <<>>)

\* last line of the statement that starts on line i
RECURSIVE EndLine(_, _, _)
EndLine(text, i, j) ==
    IF j < Len(text) /\ Indent(text[j + 1]) > Indent(text[i])
    THEN EndLine(text, i, j + 1)
    ELSE j

\* node.args (ast.arguments) of a def parsed from a line of the language: every
\* parameter is an ordinary, unannotated one.  vararg and kwarg hold at most
\* one parameter: the empty sequence is Python's None there.
ParamNames(s) == SubSeq(s, 4, CloseParen(s) - 1)
PlainArgs(names) ==
    [posonlyargs |-> <<>>,
     args |-> [k \in 1..Len(names) |-> [arg |-> names[k], annotation |-> None]],
     vararg |-> <<>>, kwonlyargs |-> <<>>, kwarg |-> <<>>]

\* the ast.FunctionDef (or other statement) node of line i
Node(text, i) ==
    LET s == Stmt(text[i])
    IN [isFunctionDef |-> IsDef(s),
        name |-> IF IsDef(s) THEN s[2] ELSE "",
        lineno |-> i,
        end_lineno |-> EndLine(text, i, i),
        col_offset |-> Indent(text[i]),
        end_col_offset |-> Len(text[EndLine(text, i, i)]),
        args |-> IF IsDef(s) THEN PlainArgs(ParamNames(s)) ELSE PlainArgs(<<>>),
        returns |-> None]

\* ast.iter_child_nodes restricted to statements, in body order
Children(tree, n) == SelectSeq(Indices(tree.parent), LAMBDA i : tree.parent[i] = n)

\* ast.walk: a deque, popleft, extend with the children (breadth first)
RECURSIVE WalkFrom(_, _)
WalkFrom(tree, queue) ==
    IF queue = <<>> THEN <<>>
    ELSE <<Head(queue)>> \o WalkFrom(tree, Tail(queue) \o Children(tree, Head(queue)))

Walk(tree) == WalkFrom(tree, <<0>>)

\* (mutant of WalkFunctionDefs: only tree.body is looked at, not the whole walk)
TopLevelFunctionDefs(text, tree) ==
    SelectSeq(Children(tree, 0), LAMBDA n : IsDef(Stmt(text[n])))

\* the nodes of the walk that pass isinstance(node, ast.FunctionDef)
WalkFunctionDefs(text, tree) ==
    SelectSeq(Walk(tree), LAMBDA n : n > 0 /\ IsDef(Stmt(text[n])))

\* ------------------------------------------------------ the Function Builder
\* (mutant of FileName: the path is kept whole)
FullPath(filepath) == filepath

\* Path(filepath).name: the components after the last "/"
FileName(filepath) ==
    LET slashes == {i \in 1..Len(filepath) : filepath[i] = "/"}
    IN IF slashes = {} THEN filepath
       ELSE SliceFrom(filepath, CHOOSE i \in slashes : \A j \in slashes : j <= i)

\* f"{filename}:{node.name}:{node.lineno}"
FuncId(filename, node) == filename \o <<":", node.name, ":", ToString(node.lineno)>>

\* f"{func_id}:arg:{i}", i counted from 0 by enumerate
ArgId(func_id, i) == func_id \o <<":", "arg", ":", ToString(i)>>

\* ast.unparse of an annotation: the annotations of the model are plain names,
\* whose canonical text is the name
Unparse(annotation) == annotation

\* s[a:b] of Python, which never fails
Slice(s, a, b) == SubSeq(s, a + 1, IF b < Len(s) THEN b ELSE Len(s))

\* ast.get_source_segment indexes lines[lineno - 1] and lines[end_lineno - 1]:
\* IndexError when the text has fewer lines than the node's position says
SegmentRaises(source, node) == node.end_lineno > Len(source)

\* ast.get_source_segment(source, node), padded = False
GetSourceSegment(source, node) ==
    IF node.end_lineno = node.lineno
    THEN <<Slice(source[node.lineno], node.col_offset, node.end_col_offset)>>
    ELSE <<SliceFrom(source[node.lineno], node.col_offset)>>
         \o SubSeq(source, node.lineno + 1, node.end_lineno - 1)
         \o <<Slice(source[node.end_lineno], 0, node.end_col_offset)>>

\* the loop over enumerate(node.args.args)
Arguments(func_id, node) ==
    [k \in 1..Len(node.args.args) |->
        [id |-> ArgId(func_id, k - 1),
         argument_name |-> node.args.args[k].arg,
         argument_type |-> IF node.args.args[k].annotation # None
                           THEN Unparse(node.args.args[k].annotation)
                           ELSE None]]

\* extract_function_info_from_diff(node, filepath, source_code); the body of
\* extract_function_info_from_file is the same once `source` has been read.
\* Nodes produced by ast.parse always carry their position, so the
\* ast.unparse fallback for the source text is never taken on them.
ExtractFunctionInfo(node, filepath, source) ==
    LET filename == FileName(filepath)
        func_id == FuncId(filename, node)
    IN [id |-> func_id,
        source_code |-> GetSourceSegment(source, node),
        input |-> Arguments(func_id, node),
        output_type |-> IF node.returns # None THEN Unparse(node.returns) ELSE None,
        file |-> filename]

\* the records of one successfully parsed text, in the order of the walk
FunctionsOf(filepath, text) ==
    LET defs == WalkFunctionDefs(text, Parse(text))
    IN [k \in 1..Len(defs) |-> ExtractFunctionInfo(Node(text, defs[k]), filepath, text)]

\* ------------------------------------------------------- parse_diff_output
MarkerPrefix == <<"+", "+", "+", " ", "b", "/">>
PyExt == <<".py">>

PathA == <<"a", ".py">>
PathDB == <<"d", "/", "b", ".py">>
PathMd == <<"README", ".md">>

\* the lines of source code a diff of the model may add
AddedCode ==
    { <<"def", "f", "(", "x", ")", ":", "pass">>,
      <<"def", "f", "(", ")", ":">>,
      <<IND, "pass">>,
      <<IND, "def", "g", "(", ")", ":", "pass">>,
      <<"def", "h", "(", ")", ":", "pass">> }

\* "--- a/a.py", a context line, and an added line whose text begins with "++"
OldHeader == <<"-", "-", "-", " ", "a", "/", "a", ".py">>
ContextLine == <<" ", "pass">>
PlusPlusLine == <<"+", "+", "+", "x">>

DiffLines ==
    {MarkerPrefix \o p : p \in {PathA, PathDB, PathMd}}
    \cup {<<"+">> \o c : c \in AddedCode}
    \cup {OldHeader, ContextLine, PlusPlusLine}

\* line.startswith("+++ b/")
IsNewFileMarker(line) == StartsWith(line, MarkerPrefix)
\* (mutant of IsSourcePath: every marked path is tracked)
AnyPathIsSource(path) == TRUE
\* current_file.endswith(".py")
IsSourcePath(path) == EndsWith(path, PyExt)
\* line.startswith("+") and not line.startswith("+++")
IsAddedLine(line) == StartsWith(line, <<"+">>) /\ ~StartsWith(line, <<"+", "+", "+">>)

\* One iteration of `for line in lines`: the if / elif / elif chain applied to
\* the scanner state s = [file, block, blocks].
ScanLine(s, line) ==
    IF IsNewFileMarker(line)
    THEN [s EXCEPT !.file = IF IsSourcePath(SliceFrom(line, 6))
                            THEN SliceFrom(line, 6) ELSE None]
    ELSE IF IsAddedLine(line) /\ s.file # None
    THEN [s EXCEPT !.block = Append(s.block, SliceFrom(line, 1))]
    ELSE IF s.block # <<>> /\ s.file # None
    THEN [s EXCEPT !.blocks = Append(s.blocks, <<s.file, s.block>>),
                   !.block = <<>>]
    ELSE s

\* "Don't forget the last block"
FinalFlush(s) ==
    IF s.block # <<>> /\ s.file # None
    THEN Append(s.blocks, <<s.file, s.block>>)
    ELSE s.blocks

\* (mutant of DiffCatchesSyntaxError: the except clause is missing)
DiffCatchesNothing == FALSE
\* `except SyntaxError: continue` around the extraction of one fragment
DiffCatchesSyntaxError == TRUE

\* (mutant of ExtendWith: the records of a fragment are put in front)
PrependWith(fns, new) == new \o fns
\* functions.append(func_info) for every record of one fragment, in walk order
ExtendWith(fns, new) == fns \o new

DiffInit ==
    /\ lines = <<>>
    /\ current_file = None
    /\ current_block = <<>>
    /\ added_code_blocks = <<>>
    /\ functions = <<>>
    /\ bi = 0
    /\ dpc = "scan"
    /\ draised = FALSE

ReadLine ==
    /\ dpc = "scan"
    /\ Len(lines) < MaxLines
    /\ \E line \in DiffLines :
        LET s == ScanLine([file |-> current_file, block |-> current_block,
                           blocks |-> added_code_blocks], line)
        IN /\ lines' = Append(lines, line)
           /\ current_file' = s.file
           /\ current_block' = s.block
           /\ added_code_blocks' = s.blocks
    /\ UNCHANGED <<functions, bi, dpc, draised, scanVars, buildVars, findVars>>

\* the for loop ends (split("\n") yields at least one line)
EndOfInput ==
    /\ dpc = "scan"
    /\ Len(lines) >= 1
    /\ added_code_blocks' = FinalFlush([file |-> current_file, block |-> current_block,
                                       blocks |-> added_code_blocks])
    /\ dpc' = "extract"
    /\ UNCHANGED <<lines, current_file, current_block, functions, bi, draised,
                   scanVars, buildVars, findVars>>

\* one iteration of `for filepath, code_block in added_code_blocks`
ExtractBlock ==
    /\ dpc = "extract"
    /\ bi < Len(added_code_blocks)
    /\ LET filepath == added_code_blocks[bi + 1][1]
           code_block == added_code_blocks[bi + 1][2]
       IN IF Parse(code_block).ok
          THEN /\ functions' = ExtendWith(functions, FunctionsOf(filepath, code_block))
               /\ bi' = bi + 1
               /\ UNCHANGED <<dpc, draised>>
          ELSE IF DiffCatchesSyntaxError
          THEN /\ bi' = bi + 1
               /\ UNCHANGED <<functions, dpc, draised>>
          ELSE /\ draised' = TRUE
               /\ dpc' = "done"
               /\ UNCHANGED <<functions, bi>>
    /\ UNCHANGED <<lines, current_file, current_block, added_code_blocks,
                   scanVars, buildVars, findVars>>

\* return functions
ReturnFunctions ==
    /\ dpc = "extract"
    /\ bi = Len(added_code_blocks)
    /\ dpc' = "done"
    /\ UNCHANGED <<lines, current_file, current_block, added_code_blocks,
                   functions, bi, draised, scanVars, buildVars, findVars>>

\* ---------------------------------------------- init and parse_python_file
\* the lines a source file of the model is made of
SourceLines ==
    { <<"def", "f", "(", ")", ":">>,
      <<IND, "def", "g", "(", "x", ")", ":", "pass">>,
      <<"def", "h", "(", ")", ":", "pass">> }

RECURSIVE TextsUpTo(_)
TextsUpTo(n) ==
    IF n = 0 THEN {<<>>}
    ELSE LET shorter == TextsUpTo(n - 1)
         IN shorter \cup {Append(t, l) : t \in {u \in shorter : Len(u) = n - 1},
                                         l \in SourceLines}

\* open() raises OSError / read() raises UnicodeDecodeError
Unreadable == <<<<"OSError">>>>
Undecodable == <<<<"UnicodeDecodeError">>>>
FileStates == TextsUpTo(MaxSrcLines) \cup {Unreadable, Undecodable}

\* the exception, if any, of open(filepath, encoding="utf-8") + read()
ReadError(d) ==
    IF d = Unreadable THEN "OSError"
    ELSE IF d = Undecodable THEN "UnicodeDecodeError"
    ELSE "none"

\* `except OSError as exc` of parse_python_file
FileExceptCatches(exc) == exc = "OSError"

\* find_python_files(pwd), as found by one scan
DiscoveredFiles == <<PathA, PathDB>>

\* what a finished parse_python_file leaves behind: the list it returned, and
\* for the record the text it parsed, the nodes it built, whether an OSError
\* ended it and whether the file changed under it
Contribution(fns, text, built, oserror, changed) ==
    [functions |-> fns, text |-> text, built |-> built,
     oserror |-> oserror, touched |-> changed]

ScanInit ==
    /\ disk = <<>>
    /\ python_files = DiscoveredFiles
    /\ fi = 0
    /\ all_functions = <<>>
    /\ content = <<>>
    /\ todo = <<>>
    /\ file_functions = <<>>
    /\ contributions = <<>>
    /\ reported = {}
    /\ touched = FALSE
    /\ written = FALSE
    /\ spc = "next"

\* parse_python_file returns `fns` to init, which extends all_functions
FileReturns(fns, text, built, oserror) ==
    /\ all_functions' = all_functions \o fns
    /\ contributions' = Append(contributions,
                               Contribution(fns, text, built, oserror, touched))
    /\ reported' = IF oserror THEN reported \cup {fi + 1} ELSE reported
    /\ fi' = fi + 1
    /\ content' = <<>>
    /\ todo' = <<>>
    /\ file_functions' = <<>>
    /\ disk' = <<>>
    /\ touched' = FALSE
    /\ spc' = "next"

\* an exception raised inside the try block of parse_python_file
FileRaises(exc, text, built) ==
    IF FileExceptCatches(exc)
    THEN FileReturns(file_functions, text, built, TRUE)
    ELSE /\ spc' = exc
         /\ disk' = <<>>
         /\ touched' = FALSE
         /\ UNCHANGED <<fi, all_functions, content, todo, file_functions,
                         contributions, reported>>

\* init takes the next file; parse_python_file opens, reads and parses it.
\* What is on disk at that path is whatever the file system holds then; `disk`
\* follows the file for as long as parse_python_file works on it.
StartFile ==
    /\ spc = "next"
    /\ fi < Len(python_files)
    /\ \E d \in FileStates :
        IF ReadError(d) # "none"
        THEN FileRaises(ReadError(d), <<>>, <<>>)
        ELSE IF ~Parse(d).ok
        THEN FileRaises("SyntaxError", d, <<>>)
        ELSE /\ disk' = d
             /\ touched' = FALSE
             /\ content' = d
             /\ todo' = WalkFunctionDefs(d, Parse(d))
             /\ file_functions' = <<>>
             /\ spc' = "build"
             /\ UNCHANGED <<fi, all_functions, contributions, reported>>
    /\ UNCHANGED <<python_files, written, diffVars, buildVars, findVars>>

\* one iteration of `for node in ast.walk(tree)` that meets a FunctionDef:
\* extract_function_info_from_file opens and reads the file again
BuildNext ==
    /\ spc = "build"
    /\ todo # <<>>
    /\ LET node == Node(content, Head(todo))
           built == [k \in 1..Len(file_functions) |->
                        WalkFunctionDefs(content, Parse(content))[k]]
       IN IF ReadError(disk) # "none"
          THEN FileRaises(ReadError(disk), content, built)
          ELSE IF SegmentRaises(disk, node)
          THEN FileRaises("IndexError", content, built)
          ELSE /\ file_functions' =
                      Append(file_functions,
                             ExtractFunctionInfo(node, python_files[fi + 1], disk))
               /\ todo' = Tail(todo)
               /\ UNCHANGED <<disk, touched, fi, all_functions, content,
                               contributions, reported, spc>>
    /\ UNCHANGED <<python_files, written, diffVars, buildVars, findVars>>

\* the walk is over: return functions
ReturnFile ==
    /\ spc = "build"
    /\ todo = <<>>
    /\ FileReturns(file_functions, content,
                   WalkFunctionDefs(content, Parse(content)), FALSE)
    /\ UNCHANGED <<python_files, written, diffVars, buildVars, findVars>>

\* What another process can do to a file holding text d in one step: remove
\* it or make it unreadable, write bytes that are not UTF-8, truncate it, change
\* one line, or append a line.
Edits(d) ==
    {Unreadable, Undecodable}
    \cup {SubSeq(d, 1, n) : n \in 0..(Len(d) - 1)}
    \cup {[d EXCEPT ![i] = l] : i \in 1..Len(d), l \in SourceLines}
    \cup (IF Len(d) < MaxSrcLines THEN {Append(d, l) : l \in SourceLines} ELSE {})

\* Another process changes the file while parse_python_file is between two
\* of its reads (once per scan).
EnvWrite ==
    /\ spc = "build"
    /\ ~written
    /\ \E d \in Edits(disk) \ {disk} : disk' = d
    /\ touched' = TRUE
    /\ written' = TRUE
    /\ UNCHANGED <<python_files, fi, all_functions, content, todo, file_functions,
                   contributions, reported, spc, diffVars, buildVars, findVars>>

\* the loop of init is over: Project(project_token, functions=all_functions)
FinishScan ==
    /\ spc = "next"
    /\ fi = Len(python_files)
    /\ spc' = "done"
    /\ UNCHANGED <<disk, python_files, fi, all_functions, content, todo,
                   file_functions, contributions, reported, touched, written,
                   diffVars, buildVars, findVars>>

\* ------------------------------------------- the Function Builder on its own
\* parameters a def may declare: a name, with or without an annotation
Params ==
    { [arg |-> "x", annotation |-> None],
      [arg |-> "y", annotation |-> <<"int">>],
      [arg |-> "z", annotation |-> None] }

RECURSIVE SeqsUpTo(_, _)
SeqsUpTo(S, n) ==
    IF n = 0 THEN {<<>>}
    ELSE LET shorter == SeqsUpTo(S, n - 1)
         IN shorter \cup {Append(t, e) : t \in {u \in shorter : Len(u) = n - 1}, e \in S}

\* every parameter of node.args, in the order the def declares them:
\* positional-only, ordinary, *vararg, keyword-only, **kwarg
Declared(a) == a.posonlyargs \o a.args \o a.vararg \o a.kwonlyargs \o a.kwarg

\* the text of one parameter
RenderParam(q) ==
    IF q.annotation = None THEN <<q.arg>> ELSE <<q.arg, ":">> \o q.annotation

\* the one-line def statement an ast.FunctionDef with these args is parsed from
RenderDef(name, a, returns) ==
    <<"def", name, "(">>
    \o Flatten([k \in 1..Len(a.posonlyargs) |-> RenderParam(a.posonlyargs[k])])
    \o (IF a.posonlyargs # <<>> THEN <<"/">> ELSE <<>>)
    \o Flatten([k \in 1..Len(a.args) |-> RenderParam(a.args[k])])
    \o (IF a.vararg # <<>> THEN <<"*">> \o RenderParam(a.vararg[1])
        ELSE IF a.kwonlyargs # <<>> THEN <<"*">> ELSE <<>>)
    \o Flatten([k \in 1..Len(a.kwonlyargs) |-> RenderParam(a.kwonlyargs[k])])
    \o (IF a.kwarg # <<>> THEN <<"**">> \o RenderParam(a.kwarg[1]) ELSE <<>>)
    \o <<")">>
    \o (IF returns = None THEN <<>> ELSE <<"->">> \o returns)
    \o <<":", "pass">>

\* the argument lists Python accepts: no name is declared twice
ArgumentLists ==
    { a \in [posonlyargs : SeqsUpTo(Params, MaxArgs),
             args : SeqsUpTo(Params, MaxArgs),
             vararg : SeqsUpTo(Params, 1),
             kwonlyargs : SeqsUpTo(Params, MaxArgs),
             kwarg : SeqsUpTo(Params, 1)] :
        \A i, j \in 1..Len(Declared(a)) :
            Declared(a)[i].arg = Declared(a)[j].arg => i = j }

\* the FunctionDef nodes handed to the builder: the def on line 1 of a one-line text
BuilderNodes ==
    { [isFunctionDef |-> TRUE, name |-> "f", lineno |-> 1, end_lineno |-> 1,
       col_offset |-> 0, end_col_offset |-> Len(RenderDef("f", a, r)),
       args |-> a, returns |-> r] :
        a \in ArgumentLists, r \in {None, <<"int">>} }

BuilderInit ==
    /\ bnode \in BuilderNodes
    /\ bresult = None
    /\ bpc = "call"

\* extract_function_info_from_diff(node, "d/b.py", text of the def)
BuildRecord ==
    /\ bpc = "call"
    /\ bresult' = ExtractFunctionInfo(bnode, PathDB,
                       <<RenderDef(bnode.name, bnode.args, bnode.returns)>>)
    /\ bpc' = "done"
    /\ UNCHANGED <<bnode, diffVars, scanVars, findVars>>

\* ------------------------------------------------------- find_python_files
\* A path relative to the root is the sequence of its components (the `parts`
\* of Path.relative_to) and a component a sequence of tokens, the extension
\* being the last one.  DotTokens are the tokens whose first character is ".".
DotTokens == {".", ".py", ".txt"}
DirNames == { <<"pkg">>, <<".", "git">>, <<"d", ".py">> }
FileNames == { <<"a", ".py">>, <<".", "h", ".py">>, <<"n", ".txt">> }

\* fnmatch of a name against "*.py"
MatchesPy(name) == name[Len(name)] = ".py"
\* part.startswith(".")
IsHidden(part) == part[1] \in DotTokens

\* directory.rglob("*.py"): every entry below the root, at any depth, whose
\* name matches the pattern, whether it is a regular file or a directory
RGlob(dirs, files) == {f \in dirs \cup files : MatchesPy(f[Len(f)])}

\* find_python_files of package clepon: the comprehension over rglob.  The list
\* is kept as the set of its paths, its order being that of the directory scan.
FilterHidden(paths) == {f \in paths : ~\E i \in 1..Len(f) : IsHidden(f[i])}
\* find_python_files of package clepon_cli: list(directory.rglob("*.py"))
KeepAll(paths) == paths

FindInit ==
    /\ fs_dirs = {}
    /\ fs_files = {}
    /\ found = {}
    /\ finder = "none"
    /\ fpc = "setup"

\* the directories an entry may be created in
Parents == {<<>>} \cup {d \in fs_dirs : Len(d) < MaxDepth}

\* the tree under the root before the scan: mkdir
MakeDir ==
    /\ fpc = "setup"
    /\ Cardinality(fs_dirs \cup fs_files) < MaxEntries
    /\ \E parent \in Parents, name \in DirNames :
          fs_dirs' = fs_dirs \cup {Append(parent, name)}
    /\ UNCHANGED <<fs_files, found, finder, fpc, diffVars, scanVars, buildVars>>

\* the tree under the root before the scan: a regular file is written
MakeFile ==
    /\ fpc = "setup"
    /\ Cardinality(fs_dirs \cup fs_files) < MaxEntries
    /\ \E parent \in Parents, name \in FileNames :
          fs_files' = fs_files \cup {Append(parent, name)}
    /\ UNCHANGED <<fs_dirs, found, finder, fpc, diffVars, scanVars, buildVars>>

\* python_files = find_python_files(pwd) of clepon/commands/init.py
FindPythonFiles ==
    /\ fpc = "setup"
    /\ found' = FilterHidden(RGlob(fs_dirs, fs_files))
    /\ finder' = "clepon"
    /\ fpc' = "done"
    /\ UNCHANGED <<fs_dirs, fs_files, diffVars, scanVars, buildVars>>

\* python_files = find_python_files(pwd) of clepon_cli/commands/init.py
FindPythonFilesCli ==
    /\ fpc = "setup"
    /\ found' = KeepAll(RGlob(fs_dirs, fs_files))
    /\ finder' = "clepon_cli"
    /\ fpc' = "done"
    /\ UNCHANGED <<fs_dirs, fs_files, diffVars, scanVars, buildVars>>

\* the other pipelines are not running
FindOff ==
    /\ fs_dirs = {} /\ fs_files = {} /\ found = {} /\ finder = "none"
    /\ fpc = "off"
ScanOff ==
    /\ disk = <<>> /\ python_files = <<>> /\ fi = 0 /\ all_functions = <<>>
    /\ content = <<>> /\ todo = <<>> /\ file_functions = <<>>
    /\ contributions = <<>> /\ reported = {} /\ touched = FALSE
    /\ written = FALSE /\ spc = "off"
BuildOff == bnode = None /\ bresult = None /\ bpc = "off"
DiffOff ==
    /\ lines = <<>> /\ current_file = None /\ current_block = <<>>
    /\ added_code_blocks = <<>> /\ functions = <<>> /\ bi = 0
    /\ dpc = "off" /\ draised = FALSE

InitDiff == DiffInit /\ ScanOff /\ BuildOff /\ FindOff
NextDiff == ReadLine \/ EndOfInput \/ ExtractBlock \/ ReturnFunctions
\* one call of parse_diff_output on an arbitrary text of at most MaxLines lines
SpecDiff == InitDiff /\ [][NextDiff]_vars

InitScan == ScanInit /\ DiffOff /\ BuildOff /\ FindOff
NextScan == StartFile \/ BuildNext \/ ReturnFile \/ EnvWrite \/ FinishScan
\* one run of `clepon init` over two discovered files
SpecScan == InitScan /\ [][NextScan]_vars

InitBuilder == BuilderInit /\ DiffOff /\ ScanOff /\ FindOff
NextBuilder == BuildRecord
\* one call of the Function Builder on an arbitrary FunctionDef node
SpecBuilder == InitBuilder /\ [][NextBuilder]_vars

InitFind == FindInit /\ DiffOff /\ ScanOff /\ BuildOff
NextFind == MakeDir \/ MakeFile \/ FindPythonFiles \/ FindPythonFilesCli
\* one file discovery, by either package, over an arbitrary small tree
SpecFind == InitFind /\ [][NextFind]_vars

\* ================================================================= claims
\* helpers of the statements (not part of the program)
LastOf(q) == q[Len(q)]
OldFilePrefix == <<"-", "-", "-", " ">>
\* a new-file marker that names a path with the source extension
NamesSource(line) == StartsWith(line, MarkerPrefix) /\ LastOf(line) = ".py"
\* the last path component, read off the path itself
Basename(path) ==
    CHOOSE q \in {SliceFrom(path, n) : n \in 0..Len(path)} :
        /\ \A i \in 1..Len(q) : q[i] # "/"
        /\ (Len(q) = Len(path) \/ path[Len(path) - Len(q)] = "/")
\* what a fragment has to contribute: its records if it parses, nothing if not
FragmentYield(fragment) ==
    IF Parse(fragment[2]).ok THEN FunctionsOf(fragment[1], fragment[2]) ELSE <<>>

\* ---- C1 (stated as claimed; the scan refutes it) ----
\* C1: a file whose text does not parse makes parse_python_file return an
\* empty list and raise nothing, so the loop of init goes on: no SyntaxError
\* ever leaves parse_python_file.
C1_UnparsableFileSkipped ==
    /\ spc # "SyntaxError"
    /\ \A k \in 1..Len(contributions) :
          ~Parse(contributions[k].text).ok => contributions[k].functions = <<>>

\* ---- C2 ----
\* C2: a fragment that fails to parse contributes no record and raises
\* nothing out of parse_diff_output, and every other fragment, before or
\* after it, contributes its functions: after bi fragments the result is the
\* concatenation of what each of them yields, and the extraction only ends
\* after the last fragment.
C2_UnparsableFragmentSkipped ==
    /\ ~draised
    /\ dpc \in {"extract", "done"} =>
          functions = Flatten([k \in 1..bi |-> FragmentYield(added_code_blocks[k])])
    /\ dpc = "done" => bi = Len(added_code_blocks)

\* C2 witness: a diff was processed to the end in which a fragment that does
\* not parse is followed by one that does and yields a record.
C2_Witness ==
    /\ dpc = "done"
    /\ Len(added_code_blocks) = 2
    /\ ~Parse(added_code_blocks[1][2]).ok
    /\ Parse(added_code_blocks[2][2]).ok
    /\ Len(functions) = 1

\* ---- C3 ----
\* the added lines of the diff read so far
AddedIdx == {i \in 1..Len(lines) : IsAddedLine(lines[i])}
\* they are one contiguous, non-empty run
OneRun ==
    /\ AddedIdx # {}
    /\ \A i, j \in AddedIdx : \A k \in i..j : k \in AddedIdx
RunFirst == CHOOSE i \in AddedIdx : \A j \in AddedIdx : i <= j
RunText == [k \in 1..Cardinality(AddedIdx) |-> SliceFrom(lines[RunFirst + k - 1], 1)]
\* the new-file markers above the run
MarkersAbove == {i \in 1..Len(lines) : IsNewFileMarker(lines[i]) /\ i < RunFirst}
MarkedPath ==
    SliceFrom(lines[CHOOSE i \in MarkersAbove : \A j \in MarkersAbove : j <= i], 6)
\* a unified diff: every "+++ b/" line directly follows the "--- " line of its file
UnifiedDiff ==
    \A i \in 1..Len(lines) :
        IsNewFileMarker(lines[i]) => i > 1 /\ StartsWith(lines[i - 1], OldFilePrefix)
\* one complete def at the left margin, with no def nested in its body
OneFunctionText(text) ==
    /\ Parse(text).ok
    /\ IsDef(Stmt(text[1])) /\ Indent(text[1]) = 0
    /\ \A i \in 2..Len(text) : Indent(text[i]) > 0 /\ ~IsDef(Stmt(text[i]))
C3_Case ==
    /\ dpc = "done"
    /\ UnifiedDiff
    /\ OneRun
    /\ MarkersAbove # {}
    /\ NamesSource(MarkerPrefix \o MarkedPath)
    /\ OneFunctionText(RunText)

C4_NoSourceFileNoFragment ==
    (\A i \in 1..Len(lines) : ~NamesSource(lines[i])) =>
        /\ current_block = <<>>
        /\ added_code_blocks = <<>>
        /\ functions = <<>>
        /\ ~draised

\* C4 witness: a diff that adds a def under the marker of README.md (and has
\* no marker of a source file) was processed to the end.
C4_Witness ==
    /\ dpc = "done"
    /\ \A i \in 1..Len(lines) : ~NamesSource(lines[i])
    /\ \E i \in 1..Len(lines) : \E j \in (i + 1)..Len(lines) :
          /\ lines[i] = MarkerPrefix \o PathMd
          /\ IsAddedLine(lines[j]) /\ IsDef(Stmt(SliceFrom(lines[j], 1)))
    /\ functions = <<>>

\* ---- C5 (stated as claimed; the scanner refutes it) ----
\* C5: every line that is neither an added line nor a new-file marker and is
\* read while the pending block is non-empty flushes the pending block as one
\* fragment and clears it.
C5_OtherLineFlushes ==
    [][ ( /\ dpc = "scan" /\ Len(lines') = Len(lines) + 1
          /\ ~IsNewFileMarker(LastOf(lines'))
          /\ ~IsAddedLine(LastOf(lines'))
          /\ current_block # <<>> )
        => ( /\ Len(added_code_blocks') = Len(added_code_blocks) + 1
             /\ LastOf(added_code_blocks')[2] = current_block
             /\ current_block' = <<>> ) ]_vars

\* ---- C6 (stated as claimed; the scanner refutes it) ----
\* C6: a pending block that is non-empty when the last line has been
\* processed is emitted as the final fragment, whatever markers came before.
C6_PendingBlockEmitted ==
    (dpc \in {"extract", "done"} /\ current_block # <<>>) =>
        /\ added_code_blocks # <<>>
        /\ LastOf(added_code_blocks)[2] = current_block

\* ---- C7 (stated as claimed; the scan refutes it) ----
\* C7: the sequence of a scan holds the files in discovery order and, within
\* one file, the records in declaration order: of two defs of a file, the one
\* that starts on the earlier line has the earlier record.
C7_DeclarationOrder ==
    /\ all_functions = Flatten([k \in 1..Len(contributions) |-> contributions[k].functions])
    /\ \A k \in 1..Len(contributions) :
          \A i, j \in 1..Len(contributions[k].functions) :
              i < j => contributions[k].built[i] < contributions[k].built[j]

\* ---- C8 (stated as claimed; the builder refutes it) ----
\* C8: the input of the record has one entry per parameter the function
\* declares, in declaration order, entry i (from 0) having id
\* "{function_id}:arg:{i}".
C8_OneEntryPerParameter ==
    bpc = "done" =>
        /\ Len(bresult.input) = Len(Declared(bnode.args))
        /\ \A i \in 1..Len(bresult.input) :
              /\ i <= Len(Declared(bnode.args))
                    => bresult.input[i].argument_name = Declared(bnode.args)[i].arg
              /\ bresult.input[i].id = bresult.id \o <<":", "arg", ":", ToString(i - 1)>>

\* ---- C9 ----
\* the id a def on line i of `text` in file `path` is due
DueId(path, text, i) == Basename(path) \o <<":", Stmt(text[i])[2], ":", ToString(i)>>
TopLevelDefs(text) == {i \in 1..Len(text) : IsDef(Stmt(text[i])) /\ Indent(text[i]) = 0}
NestedDefs(text) == {i \in 1..Len(text) : IsDef(Stmt(text[i])) /\ Indent(text[i]) > 0}
\* file k was parsed from valid source that nobody changed meanwhile
ValidStableFile(k) ==
    /\ Parse(contributions[k].text).ok
    /\ ~contributions[k].touched
    /\ ~contributions[k].oserror

\* C9: for a valid source file (one that stays as it is while it is parsed)
\* with N top-level defs, parse_python_file returns N records plus one per
\* nested def: every def of the text has exactly one record, carrying the id
\* of that def, and records of different lines have different ids.
C9_OneRecordPerDefinition ==
    \A k \in 1..Len(contributions) :
        ValidStableFile(k) =>
            LET c == contributions[k]
                defs == TopLevelDefs(c.text) \cup NestedDefs(c.text)
                ids == [j \in 1..Len(c.functions) |-> c.functions[j].id]
            IN /\ Len(ids) =
                      Cardinality(TopLevelDefs(c.text)) + Cardinality(NestedDefs(c.text))
               /\ Len(c.built) = Len(ids)
               /\ \A d \in defs :
                     Cardinality({j \in 1..Len(ids) :
                                     ids[j] = DueId(python_files[k], c.text, d)}) = 1
               /\ \A i, j \in 1..Len(ids) : c.built[i] # c.built[j] => ids[i] # ids[j]

\* C9 witness: a file with two top-level defs and a nested one, untouched
\* while parsed, has contributed its three records.
C9_Witness ==
    \E k \in 1..Len(contributions) :
        /\ ValidStableFile(k)
        /\ Cardinality(TopLevelDefs(contributions[k].text)) = 2
        /\ Cardinality(NestedDefs(contributions[k].text)) = 1
        /\ Len(contributions[k].functions) = 3

\* ---- C10 (stated as claimed; the scan refutes it) ----
\* C10: a file that cannot be opened or read is reported and contributes an
\* empty list, never a partial one (and the scan goes on with the next file).
C10_UnreadableFileEmpty ==
    \A k \in 1..Len(contributions) :
        contributions[k].oserror =>
            /\ k \in reported
            /\ contributions[k].functions = <<>>
            /\ fi >= k

\* ---- C11 (stated as claimed; file discovery refutes it) ----
\* the regular files with the source extension that have no hidden component
VisibleSourceFiles ==
    {f \in fs_files : MatchesPy(f[Len(f)]) /\ \A i \in 1..Len(f) : f[i][1] \notin DotTokens}
\* C11: file discovery returns exactly the regular files with the source
\* extension below the root that have no component beginning with a dot.
C11_ExactlyVisibleSourceFiles ==
    fpc = "done" => found = VisibleSourceFiles

\* ---- C12 ----
IsPrefix(p, q) == Len(p) <= Len(q) /\ SubSeq(q, 1, Len(p)) = p
\* C12: fragments are kept in the order they were flushed and extracted in
\* that order, and the records of a fragment are put after every record
\* already in the list: a step never moves or removes a fragment or a record,
\* and the records it adds are those of the next fragment.  So every function
\* of an earlier-flushed fragment precedes every function of a later one.
C12_FlushOrder ==
    [][ /\ IsPrefix(added_code_blocks, added_code_blocks')
        /\ IsPrefix(functions, functions')
        /\ bi' >= bi
        /\ \A i \in (Len(functions) + 1)..Len(functions') :
              /\ bi' = bi + 1
              /\ \E j \in 1..Len(FragmentYield(added_code_blocks[bi'])) :
                    functions'[i] = FragmentYield(added_code_blocks[bi'])[j] ]_vars

\* C12 witness: two fragments that yield different records were extracted,
\* the record of the first flushed standing before the record of the second.
C12_Witness ==
    /\ dpc = "done"
    /\ Len(added_code_blocks) = 2
    /\ Len(functions) = 2
    /\ functions[1] # functions[2]
    /\ <<functions[1]>> = FragmentYield(added_code_blocks[1])
    /\ <<functions[2]>> = FragmentYield(added_code_blocks[2])

\* ---- C13 (stated as claimed; the scan refutes it) ----
\* the span of the def on line i of `text`, cut out of `text` itself
SpanIn(text, i) == GetSourceSegment(text, Node(text, i))
\* C13: every record's source_code is sliced from the text that was parsed,
\* and the builder never fails once the file has been read and parsed,
\* whatever happens to the file on disk in between: no IndexError leaves the
\* builder, no OSError ends a file whose text was read, and the records
\* built so far and those returned carry the spans of the parsed text.
C13_SlicedFromParsedText ==
    /\ spc # "IndexError"
    /\ \A j \in 1..Len(file_functions) :
          file_functions[j].source_code =
              SpanIn(content, WalkFunctionDefs(content, Parse(content))[j])
    /\ \A k \in 1..Len(contributions) :
          /\ contributions[k].oserror => contributions[k].text = <<>>
          /\ \A j \in 1..Len(contributions[k].functions) :
                contributions[k].functions[j].source_code =
                    SpanIn(contributions[k].text, contributions[k].built[j])

\* ---- C14 (stated as claimed; the scanner refutes it) ----
\* lines a..b of the diff are added lines that stand below the marker on line
\* m, which names `file`, with no other marker in between
RunUnderMarker(file, m, a, b) ==
    /\ lines[m] = MarkerPrefix \o file
    /\ m < a /\ a <= b
    /\ \A i \in (m + 1)..b : ~IsNewFileMarker(lines[i])
    /\ \A i \in a..b : IsAddedLine(lines[i])
\* C14: every fragment (file, text) emitted consists of added lines that
\* stand after the new-file marker of that file and before the next new-file
\* marker; lines pending when a marker is read never end up in a fragment of
\* another file.
C14_FragmentWithinItsSection ==
    \A k \in 1..Len(added_code_blocks) :
        \E m, a, b \in 1..Len(lines) :
            /\ RunUnderMarker(added_code_blocks[k][1], m, a, b)
            /\ added_code_blocks[k][2] = [i \in 1..(b - a + 1) |-> SliceFrom(lines[a + i - 1], 1)]

\* ---- C15 (stated as claimed; the extraction refutes it) ----
\* the diff touches a single source file: it has one new-file marker, and
\* that marker names a path with the source extension
SingleSourceFile ==
    /\ Cardinality({i \in 1..Len(lines) : IsNewFileMarker(lines[i])}) = 1
    /\ \E i \in 1..Len(lines) : NamesSource(lines[i])
\* C15: the records returned for a diff that touches a single source file
\* have pairwise distinct ids.
C15_DistinctIds ==
    (dpc = "done" /\ SingleSourceFile) =>
        \A i, j \in 1..Len(functions) : i # j => functions[i].id # functions[j].id

====
